---- MODULE Spec2Model ----
(***************************************************************************)
(* A model of src/src/m4_loader.py (M4comp2018py): the cached download of  *)
(* the package tarball, the extraction of M4.rda from it, the load of the  *)
(* M4 object into the R global environment, the per-series conversion to   *)
(* Python values and the label filter over the series.                     *)
(*                                                                         *)
(* Four specifications share the module, one per part of the loader:       *)
(*   Spec        filter_m4_series, one loop iteration per step             *)
(*   SpecRecord  extract_m4_series / get_m4_series_py on one series        *)
(*   SpecFiles   download_m4_tarball / extract_m4_rda_from_tarball         *)
(*   SpecLoad    load_m4_r_object                                          *)
(***************************************************************************)
EXTENDS Integers, Sequences, FiniteSets, TLC

VARIABLES
    \* ---- filter_m4_series (Spec) ----
    m4,           \* the R list of series handed to the filter
    period,       \* argument period: None or Some(label)
    type,         \* argument type: None or Some(label)
    max_series,   \* argument max_series: None or Some(int)
    period_code,  \* local period_code (line 387)
    type_code,    \* local type_code (line 388)
    n_total,      \* local n_total (line 390)
    results,      \* local results: dict position -> extracted series
    count,        \* local count
    idx,          \* the loop variable of line 394
    pc,           \* "idle", "loop" (inside the for), "done" (returned)
    examined,     \* history: each get_m4_factor_codes call, with count then
    extracted,    \* history: each extract_m4_series call of the filter
    \* ---- extract_m4_series / get_m4_series_py (SpecRecord) ----
    series,       \* the R list M4[[index]] under conversion
    full,         \* last result of extract_m4_series: None or Some(dict)
    reduced,      \* last result of get_m4_series_py: None or Some(dict)
    \* ---- download / extract (SpecFiles) ----
    remote,       \* the archive served at M4_TARBALL_URL
    tarball,      \* file M4_TARBALL_PATH: None or Some(archive file)
    alt_tar,      \* a caller-supplied tar_path: None or Some(archive file)
    rda,          \* file RDA_PATH: None or Some(bytes)
    last,         \* the latest call: arguments, outcome, state before it
    \* ---- load_m4_r_object (SpecLoad) ----
    payloads,     \* payload files by path: None or Some(bytes)
    globalenv,    \* R's global binding "M4": None or Some(object)
    loads,        \* number of R load() instructions run so far
    loaded        \* the latest load_m4_r_object call and its outcome

filterVars == <<m4, period, type, max_series, period_code, type_code, n_total,
                results, count, idx, pc, examined, extracted>>
recordVars == <<series, full, reduced>>
fileVars == <<remote, tarball, alt_tar, rda, last>>
loadVars == <<payloads, globalenv, loads, loaded>>
vars == <<filterVars, recordVars, fileVars, loadVars>>

(***************************************************************************)
(* Python values.  An optional value (x | None) is a sequence of length    *)
(* at most one, so that None never collides with a string or an integer.   *)
(***************************************************************************)
None == << >>
Some(v) == <<v>>

\* Python truthiness of an optional str: None and "" are falsy.
TruthyStr(o) == o # None /\ o[1] # ""

\* Python truthiness of an optional int: None and 0 are falsy.
TruthyInt(o) == o # None /\ o[1] # 0

\* dict.get(key): the value, or None when the key is absent.
DictGet(d, k) == IF k \in DOMAIN d THEN Some(d[k]) ELSE None

EmptyDict == [k \in {} |-> None]

\* d[k] = v
DictSet(d, k, v) == [x \in (DOMAIN d) \cup {k} |-> IF x = k THEN v ELSE d[x]]

Digit == <<"0", "1", "2", "3", "4", "5", "6", "7", "8", "9">>

RECURSIVE NatToStr(_)
NatToStr(n) == IF n < 10 THEN Digit[n + 1]
               ELSE NatToStr(n \div 10) \o Digit[(n % 10) + 1]

\* str(i) of a Python int
IntToStr(i) == IF i < 0 THEN "-" \o NatToStr(-i) ELSE NatToStr(i)

(***************************************************************************)
(* R values.  A vector is [kind, v]: kind "chr" (strings), "int"           *)
(* (integers), "dbl" (doubles, held in tenths: 15 is 1.5), "factor"        *)
(* (integer codes, with the level labels beside them) or "list" (anything  *)
(* else).  A series is an R named list: a sequence of [name, value].       *)
(***************************************************************************)
RChr(v) == [kind |-> "chr", v |-> v, levels |-> << >>]
RInt(v) == [kind |-> "int", v |-> v, levels |-> << >>]
RDbl(v) == [kind |-> "dbl", v |-> v, levels |-> << >>]
RFactor(v, levels) == [kind |-> "factor", v |-> v, levels |-> levels]
RList(v) == [kind |-> "list", v |-> v, levels |-> << >>]

PeriodLevels == <<"Daily", "Hourly", "Monthly", "Quarterly", "Weekly", "Yearly">>
TypeLevels == <<"Demographic", "Finance", "Industry", "Macro", "Micro", "Other">>

PERIOD_LABEL_TO_CODE ==
    ("Daily" :> "1") @@ ("Hourly" :> "2") @@ ("Monthly" :> "3") @@
    ("Quarterly" :> "4") @@ ("Weekly" :> "5") @@ ("Yearly" :> "6")

TYPE_LABEL_TO_CODE ==
    ("Demographic" :> "1") @@ ("Finance" :> "2") @@ ("Industry" :> "3") @@
    ("Macro" :> "4") @@ ("Micro" :> "5") @@ ("Other" :> "6")

\* list(s.names)
names(s) == [i \in 1..Len(s) |-> s[i].name]

\* s.rx2(name): R's [[name]], the first element of that name
rx2(s, name) ==
    s[CHOOSE i \in 1..Len(s) :
        /\ s[i].name = name
        /\ \A j \in 1..(i - 1) : s[j].name # name].value

(***************************************************************************)
(* Python values produced by the conversions: [t, v] with t "str", "int",  *)
(* "ndarray" (float64 elements, in tenths) or "robj" (the raw rpy2 value). *)
(***************************************************************************)
PyStr(s) == [t |-> "str", v |-> s]
PyInt(i) == [t |-> "int", v |-> i]
PyArray(a) == [t |-> "ndarray", v |-> a]
PyRaw(value) == [t |-> "robj", v |-> value]

\* str(d) of a Python float held in tenths: str(2.5) = "2.5", str(-0.5) = "-0.5"
FloatToStr(d) ==
    LET a == IF d < 0 THEN -d ELSE d
    IN (IF d < 0 THEN "-" ELSE "") \o NatToStr(a \div 10) \o "." \o Digit[(a % 10) + 1]

\* str(value[0]): a string stays itself, an integer or a factor code prints
\* as its decimal digits, a double as a Python float.
StrOfFirst(value) ==
    CASE value.kind = "chr" -> PyStr(value.v[1])
      [] value.kind \in {"int", "factor"} -> PyStr(IntToStr(value.v[1]))
      [] value.kind = "dbl" -> PyStr(FloatToStr(value.v[1]))

\* int(value[0]): a double is truncated toward zero.
IntOfFirst(value) ==
    CASE value.kind \in {"int", "factor"} -> PyInt(value.v[1])
      [] value.kind = "dbl" ->
            PyInt(IF value.v[1] < 0 THEN -((-value.v[1]) \div 10)
                  ELSE value.v[1] \div 10)

\* np.array(value, dtype=float): integers become floats, doubles stay.
FloatArray(value) ==
    CASE value.kind \in {"int", "factor"} ->
            PyArray([i \in 1..Len(value.v) |-> 10 * value.v[i]])
      [] value.kind = "dbl" -> PyArray(value.v)

(***************************************************************************)
(* get_m4_factor_codes, get_m4_series_py, extract_m4_series                *)
(***************************************************************************)
\* get_m4_factor_codes(m4_r_object, index): (period_code, type_code)
get_m4_factor_codes(m4_r_object, index) ==
    LET s == m4_r_object[index]
    IN <<StrOfFirst(rx2(s, "period")).v, StrOfFirst(rx2(s, "type")).v>>

\* get_m4_series_py(m4_r_object, index): the fixed reduced field subset
get_m4_series_py(m4_r_object, index) ==
    LET s == m4_r_object[index]
    IN ("st" :> StrOfFirst(rx2(s, "st"))) @@
       ("n" :> IntOfFirst(rx2(s, "n"))) @@
       ("h" :> IntOfFirst(rx2(s, "h"))) @@
       ("period" :> StrOfFirst(rx2(s, "period"))) @@
       ("type" :> StrOfFirst(rx2(s, "type"))) @@
       ("x" :> FloatArray(rx2(s, "x"))) @@
       ("xx" :> FloatArray(rx2(s, "xx")))

\* A slip of the conversion: the factor fields translated to their label.
ConvertFieldLabel(name, value) ==
    IF name \in {"x", "xx", "pt_ff", "up_ff", "low_ff"} THEN FloatArray(value)
    ELSE IF name \in {"st"} THEN StrOfFirst(value)
    ELSE IF name \in {"period", "type"} THEN PyStr(value.levels[value.v[1]])
    ELSE IF name \in {"n", "h"} THEN IntOfFirst(value)
    ELSE PyRaw(value)

\* The if/elif chain of extract_m4_series: the conversion chosen by field name.
ConvertField(name, value) ==
    IF name \in {"x", "xx", "pt_ff", "up_ff", "low_ff"} THEN FloatArray(value)
    ELSE IF name \in {"st"} THEN StrOfFirst(value)
    ELSE IF name \in {"period", "type"} THEN StrOfFirst(value)
    ELSE IF name \in {"n", "h"} THEN IntOfFirst(value)
    ELSE PyRaw(value)

\* for name in names: out[name] = <converted s.rx2(name)>, from the i-th name on
RECURSIVE ExtractLoop(_, _, _, _)
ExtractLoop(s, nms, i, out) ==
    IF i > Len(nms) THEN out
    ELSE ExtractLoop(s, nms, i + 1,
                     DictSet(out, nms[i], ConvertField(nms[i], rx2(s, nms[i]))))

\* extract_m4_series(m4_r_object, index)
extract_m4_series(m4_r_object, index) ==
    LET s == m4_r_object[index]
    IN ExtractLoop(s, names(s), 1, EmptyDict)

(***************************************************************************)
(* filter_m4_series                                                        *)
(***************************************************************************)
\* A slip of the lookup: an unknown label kept as if it were a code.
LabelCodeKeep(table, label) ==
    IF TruthyStr(label)
    THEN (IF label[1] \in DOMAIN table THEN Some(table[label[1]]) ELSE label)
    ELSE None

\* TABLE.get(label) if label else None  (lines 387-388)
LabelCode(table, label) ==
    IF TruthyStr(label) THEN DictGet(table, label[1]) ELSE None

\* A slip of the test: the type constraint forgotten.
SkipPeriodOnly(per_code, typ_code, p_code, t_code) ==
    TruthyStr(per_code) /\ p_code # per_code[1]

\* The two `continue` tests of lines 397-400: TRUE when the series is skipped.
Skip(per_code, typ_code, p_code, t_code) ==
    \/ TruthyStr(per_code) /\ p_code # per_code[1]
    \/ TruthyStr(typ_code) /\ t_code # typ_code[1]

\* The `break` test of line 406.
CapReached(cap, cnt) == TruthyInt(cap) /\ cnt >= cap[1]

\* The state of the for loop before it has examined anything (lines 391-394).
LoopStart == [idx |-> 1, results |-> EmptyDict, count |-> 0, brk |-> FALSE,
              examined |-> << >>, extracted |-> << >>]

\* One iteration of the for loop (lines 395-407) at position st.idx.
FilterIter(m4_r_object, per_code, typ_code, cap, st) ==
    LET codes == get_m4_factor_codes(m4_r_object, st.idx)
        seen == Append(st.examined, [idx |-> st.idx, count |-> st.count])
    IN IF Skip(per_code, typ_code, codes[1], codes[2])
       THEN [st EXCEPT !.examined = seen, !.idx = @ + 1]
       ELSE LET cnt == st.count + 1
                stop == CapReached(cap, cnt)
            IN [idx |-> IF stop THEN st.idx ELSE st.idx + 1,
                results |-> DictSet(st.results, st.idx,
                                    extract_m4_series(m4_r_object, st.idx)),
                count |-> cnt,
                brk |-> stop,
                examined |-> seen,
                extracted |-> Append(st.extracted, st.idx)]

\* The for loop run to its end: range exhausted, or break.
RECURSIVE FilterRun(_, _, _, _, _)
FilterRun(m4_r_object, per_code, typ_code, cap, st) ==
    IF st.brk \/ st.idx > Len(m4_r_object) THEN st
    ELSE FilterRun(m4_r_object, per_code, typ_code, cap,
                   FilterIter(m4_r_object, per_code, typ_code, cap, st))

\* filter_m4_series(m4_r_object, period, type, max_series): the returned dict
filter_m4_series(m4_r_object, per, typ, cap) ==
    FilterRun(m4_r_object,
              LabelCode(PERIOD_LABEL_TO_CODE, per),
              LabelCode(TYPE_LABEL_TO_CODE, typ),
              cap, LoopStart).results

(***************************************************************************)
(* Inputs of the filter.                                                   *)
(***************************************************************************)
MaxSeries == 3   \* longest M4 list handed to the filter
MaxCap == 2      \* largest max_series tried

\* One well-formed series with the given factor codes.
MkSeries(p, t) ==
    << [name |-> "st", value |-> RChr(<<"S">>)],
       [name |-> "x", value |-> RDbl(<<15, 20>>)],
       [name |-> "n", value |-> RInt(<<2>>)],
       [name |-> "type", value |-> RFactor(<<t>>, TypeLevels)],
       [name |-> "h", value |-> RInt(<<1>>)],
       [name |-> "period", value |-> RFactor(<<p>>, PeriodLevels)],
       [name |-> "xx", value |-> RDbl(<<25>>)] >>

StoredPeriods == {4, 6}
StoredTypes == {2, 4}
SeriesChoices == {MkSeries(p, t) : p \in StoredPeriods, t \in StoredTypes}
Handles == UNION {[1..n -> SeriesChoices] : n \in 0..MaxSeries}

\* Labels tried: unset, empty, two known labels, one unknown label.
PeriodInputs == {None, Some(""), Some("Yearly"), Some("Quarterly"), Some("yearly")}
TypeInputs == {None, Some(""), Some("Macro"), Some("Finance"), Some("6")}
CapInputs == {None} \cup {Some(k) : k \in 0..MaxCap}

IdleRecord == [m4 |-> << >>, index |-> 0]
NoCall == [op |-> "none"]

\* The variables of the other parts, parked.
RecordParked == series = IdleRecord /\ full = None /\ reduced = None
FilesParked == /\ remote = << >> /\ tarball = None /\ alt_tar = None
               /\ rda = None /\ last = NoCall
LoadParked == payloads = << >> /\ globalenv = None /\ loads = 0 /\ loaded = NoCall
FilterParked ==
    /\ m4 = << >> /\ period = None /\ type = None /\ max_series = None
    /\ period_code = None /\ type_code = None /\ n_total = 0
    /\ results = EmptyDict /\ count = 0 /\ idx = 0 /\ pc = "idle"
    /\ examined = << >> /\ extracted = << >>

(***************************************************************************)
(* Spec: filter_m4_series on a loaded M4 list, one loop iteration a step.  *)
(***************************************************************************)
Init ==
    /\ m4 \in Handles
    /\ period = None /\ type = None /\ max_series = None
    /\ period_code = None /\ type_code = None /\ n_total = 0
    /\ results = EmptyDict /\ count = 0 /\ idx = 0 /\ pc = "idle"
    /\ examined = << >> /\ extracted = << >>
    /\ RecordParked /\ FilesParked /\ LoadParked

LoopState == [idx |-> idx, results |-> results, count |-> count, brk |-> FALSE,
              examined |-> examined, extracted |-> extracted]

\* The call, up to the for statement (lines 386-394).
Call(per, typ, cap) ==
    /\ pc \in {"idle", "done"}
    /\ period' = per /\ type' = typ /\ max_series' = cap
    /\ period_code' = LabelCode(PERIOD_LABEL_TO_CODE, per)
    /\ type_code' = LabelCode(TYPE_LABEL_TO_CODE, typ)
    /\ n_total' = Len(m4)
    /\ results' = LoopStart.results /\ count' = LoopStart.count
    /\ idx' = LoopStart.idx
    /\ examined' = LoopStart.examined /\ extracted' = LoopStart.extracted
    /\ pc' = IF Len(m4) >= 1 THEN "loop" ELSE "done"
    /\ UNCHANGED <<m4, recordVars, fileVars, loadVars>>

\* One iteration of the for loop, and the return when it was the last.
Iterate ==
    /\ pc = "loop"
    /\ LET st == FilterIter(m4, period_code, type_code, max_series, LoopState)
       IN /\ idx' = st.idx /\ results' = st.results /\ count' = st.count
          /\ examined' = st.examined /\ extracted' = st.extracted
          /\ pc' = IF st.brk \/ st.idx > n_total THEN "done" ELSE "loop"
    /\ UNCHANGED <<m4, period, type, max_series, period_code, type_code, n_total,
                   recordVars, fileVars, loadVars>>

Next ==
    \/ \E per \in PeriodInputs, typ \in TypeInputs, cap \in CapInputs :
          Call(per, typ, cap)
    \/ Iterate

Spec == Init /\ [][Next]_vars

(***************************************************************************)
(* Properties of the filter (checked under Spec).                          *)
(***************************************************************************)
\* The code a label stands for, when the label is a key of the table.
ActiveCode(table, label) ==
    IF label # None /\ label[1] \in DOMAIN table THEN Some(table[label[1]]) ELSE None

\* The factor code stored at position i of h, as its decimal string.
StoredCode(h, i, field) == IntToStr(rx2(h[i], field).v[1])

\* The positions of h whose stored codes meet the constraints the labels name.
Matching(h, per, typ) ==
    LET pcode == ActiveCode(PERIOD_LABEL_TO_CODE, per)
        tcode == ActiveCode(TYPE_LABEL_TO_CODE, typ)
    IN {i \in 1..Len(h) :
          /\ pcode # None => StoredCode(h, i, "period") = pcode[1]
          /\ tcode # None => StoredCode(h, i, "type") = tcode[1]}

Recognized(table, label) == label = None \/ label[1] \in DOMAIN table

\* The k lowest elements of a set of positions.
LowestK(S, k) == {i \in S : Cardinality({j \in S : j < i}) < k}

\* C1: with no cap and recognized (or absent) labels, the returned mapping has
\* exactly the positions whose stored period code and type code equal the codes
\* of the labels given, each mapped to its extracted series; with no such
\* position it is the empty mapping.
C1_FilterExact ==
    (/\ pc = "done" /\ max_series = None
     /\ Recognized(PERIOD_LABEL_TO_CODE, period)
     /\ Recognized(TYPE_LABEL_TO_CODE, type))
    => /\ DOMAIN results = Matching(m4, period, type)
       /\ \A i \in DOMAIN results : results[i] = extract_m4_series(m4, i)

C1_Witness ==
    /\ pc = "done" /\ max_series = None
    /\ period = Some("Yearly") /\ type = Some("Macro")
    /\ DOMAIN results # {} /\ DOMAIN results # 1..Len(m4)
    /\ \E i \in 1..Len(m4) : StoredCode(m4, i, "period") = "6" /\ i \notin DOMAIN results

\* C2: for every integer cap k >= 0 with more than k matching positions, the
\* returned mapping has exactly k entries, keyed by the k lowest matching
\* positions.
C2_CapExact ==
    (/\ pc = "done" /\ max_series # None /\ max_series[1] >= 0
     /\ Cardinality(Matching(m4, period, type)) > max_series[1])
    => /\ Cardinality(DOMAIN results) = max_series[1]
       /\ DOMAIN results = LowestK(Matching(m4, period, type), max_series[1])

\* The cap as the code applies it: C2's statement for k >= 1 (k = 0 is read by
\* line 406 as "no cap").
CapExactPositive ==
    (/\ pc = "done" /\ max_series # None /\ max_series[1] >= 1
     /\ Cardinality(Matching(m4, period, type)) > max_series[1])
    => /\ Cardinality(DOMAIN results) = max_series[1]
       /\ DOMAIN results = LowestK(Matching(m4, period, type), max_series[1])

\* C3: a label that is no key of its table (the empty string included) gives
\* the same mapping as the call with that dimension unset and the other
\* arguments equal.
C3_UnknownLabelIgnored ==
    pc = "done" =>
       /\ (period # None /\ period[1] \notin DOMAIN PERIOD_LABEL_TO_CODE)
             => results = filter_m4_series(m4, None, type, max_series)
       /\ (type # None /\ type[1] \notin DOMAIN TYPE_LABEL_TO_CODE)
             => results = filter_m4_series(m4, period, None, max_series)

C3_Witness ==
    /\ pc = "done" /\ period = Some("yearly") /\ type = Some("Macro")
    /\ DOMAIN results # {} /\ DOMAIN results # 1..Len(m4)
    /\ \E i \in DOMAIN results : StoredCode(m4, i, "period") # "6"

\* Positions are examined in ascending order from 1, none twice.
ExaminedAscending == \A j \in 1..Len(examined) : examined[j].idx = j

\* The Record Extractor runs only on matching positions, at most once each.
ExtractedOnlyMatches ==
    /\ \A j \in 1..Len(extracted) : extracted[j] \in Matching(m4, period, type)
    /\ \A j, k \in 1..Len(extracted) : j < k => extracted[j] < extracted[k]

\* C9: during one call positions are examined in strictly ascending order from
\* 1, the Record Extractor runs only on matching positions and at most once per
\* position, and once max_series is set and the match counter has reached it
\* no position is examined any more.
C9_ScanOrder ==
    /\ ExaminedAscending
    /\ ExtractedOnlyMatches
    /\ max_series # None =>
          \A j \in 1..Len(examined) : examined[j].count < max_series[1]

\* C9's statement with "set" read as line 406 reads it (a cap that is not 0).
ScanOrderTruthyCap ==
    /\ ExaminedAscending
    /\ ExtractedOnlyMatches
    /\ TruthyInt(max_series) =>
          \A j \in 1..Len(examined) : examined[j].count < max_series[1]

(***************************************************************************)
(* SpecRecord: extract_m4_series and get_m4_series_py on one series.       *)
(* The series carry the documented fields with values of the documented    *)
(* kinds (n and h stored as integer or as double), optionally a forecast   *)
(* band and one field outside the documented set.                          *)
(***************************************************************************)
MaxLen == 2   \* longest numeric vector x

DblVectors == UNION {[1..n -> {15, -5}] : n \in 0..MaxLen}
XChoices == {RDbl(v) : v \in DblVectors} \cup {RInt(<<3, 4>>)}
NChoices == {RInt(<<2>>), RDbl(<<27>>)}
HChoices == {RInt(<<1>>), RDbl(<<-15>>)}
StChoices == {RChr(<<"Y1">>), RChr(<<"Y1", "Y2">>)}
BandChoices == {<< >>, <<[name |-> "pt_ff", value |-> RDbl(<<15>>)]>>}
ExtraChoices == {<< >>,
                 <<[name |-> "note", value |-> RChr(<<"6">>)]>>,
                 <<[name |-> "meta", value |-> RList(<<1, 2>>)]>>}

RecordChoices ==
    {<< [name |-> "st", value |-> st],
        [name |-> "x", value |-> x],
        [name |-> "n", value |-> n],
        [name |-> "type", value |-> RFactor(<<t>>, TypeLevels)],
        [name |-> "h", value |-> h],
        [name |-> "period", value |-> RFactor(<<p>>, PeriodLevels)],
        [name |-> "xx", value |-> RDbl(<<25>>)] >> \o band \o extra :
     st \in StChoices, x \in XChoices, n \in NChoices, h \in HChoices,
     t \in StoredTypes, p \in 1..Len(PeriodLevels),
     band \in BandChoices, extra \in ExtraChoices}

\* The series sits at position 1 or at position 2 of the list.
RecordInputs ==
    {[m4 |-> <<s>>, index |-> 1] : s \in RecordChoices}
    \cup {[m4 |-> <<MkSeries(4, 2), s>>, index |-> 2] : s \in RecordChoices}

InitRecord ==
    /\ series \in RecordInputs /\ full = None /\ reduced = None
    /\ FilterParked /\ FilesParked /\ LoadParked

ExtractFull ==
    /\ full' = Some(extract_m4_series(series.m4, series.index))
    /\ UNCHANGED <<series, reduced, filterVars, fileVars, loadVars>>

ExtractReduced ==
    /\ reduced' = Some(get_m4_series_py(series.m4, series.index))
    /\ UNCHANGED <<series, full, filterVars, fileVars, loadVars>>

NextRecord == ExtractFull \/ ExtractReduced

SpecRecord == InitRecord /\ [][NextRecord]_vars

ArrayFields == {"x", "xx", "pt_ff", "up_ff", "low_ff"}
ReducedFields == {"st", "n", "h", "period", "type", "x", "xx"}

\* The real numbers of an R numeric vector, in tenths.
Reals(value) ==
    [j \in 1..Len(value.v) |-> IF value.kind = "dbl" THEN value.v[j] ELSE 10 * value.v[j]]

\* The integer part (toward zero) of the first number of an R numeric vector.
IntegerPart(value) ==
    LET d == Reals(value)[1]
    IN CHOOSE q \in -100..100 :
          IF d >= 0 THEN 10 * q <= d /\ d < 10 * q + 10
          ELSE 10 * q >= d /\ d > 10 * q - 10

\* C10: the result of extract_m4_series has exactly the record's field names as
\* keys; each field is converted by its name alone (x, xx, pt_ff, up_ff, low_ff
\* to the sequence of its reals; st, period, type to the string of the first
\* scalar, the category code kept and not its label; n, h to the integer of the
\* first scalar); any other field is passed through as it is; and on its seven
\* fields get_m4_series_py returns the same values.
C10_FieldConversion ==
    LET s == series.m4[series.index]
    IN /\ full # None =>
            /\ DOMAIN full[1] = {s[i].name : i \in 1..Len(s)}
            /\ \A i \in 1..Len(s) :
                 LET nm == s[i].name
                     val == s[i].value
                     got == full[1][nm]
                 IN /\ nm \in ArrayFields =>
                          got.t = "ndarray" /\ got.v = Reals(val)
                    /\ nm = "st" => got.t = "str" /\ got.v = val.v[1]
                    /\ nm \in {"period", "type"} =>
                          /\ got.t = "str" /\ got.v = Digit[val.v[1] + 1]
                          /\ got.v # val.levels[val.v[1]]
                    /\ nm \in {"n", "h"} =>
                          got.t = "int" /\ got.v = IntegerPart(val)
                    /\ nm \notin ArrayFields \cup {"st", "period", "type", "n", "h"} =>
                          got.t = "robj" /\ got.v = val
       /\ (full # None /\ reduced # None) =>
            /\ DOMAIN reduced[1] = ReducedFields
            /\ \A k \in ReducedFields : reduced[1][k] = full[1][k]

C10_Witness ==
    LET s == series.m4[series.index]
    IN /\ full # None /\ reduced # None
       /\ series.index = 2
       /\ \E i \in 1..Len(s) : s[i].name = "meta"
       /\ \E i \in 1..Len(s) : s[i].name = "pt_ff"
       /\ full[1]["n"] = PyInt(2) /\ rx2(s, "n").kind = "dbl"
       /\ full[1]["h"] = PyInt(-1)
       /\ full[1]["period"] = PyStr("6")
       /\ full[1]["x"] = PyArray(<<30, 40>>)

(***************************************************************************)
(* Archives.  A member is [name, kind, target, data]: the name is a string *)
(* whose characters Chars gives; kind is "file" (a regular file), "dir" (a *)
(* member with no data: directory, FIFO, device), "sym" (a symbolic link)  *)
(* or "lnk" (a hard link); target is, for a link, the member name its      *)
(* linkname resolves to; data stands for a regular file's bytes.  An       *)
(* archive file is [members, cut]: cut is "none" for the whole file and,   *)
(* for the partial file a transfer that ended early leaves, "head" (too    *)
(* short to be read as gzip), "body" (the compressed data ends early) or   *)
(* "tail" (only bytes after the last member are missing).                  *)
(***************************************************************************)
UpperCase == <<"A", "B", "C", "D", "E", "F", "G", "H", "I", "J", "K", "L", "M",
               "N", "O", "P", "Q", "R", "S", "T", "U", "V", "W", "X", "Y", "Z">>
LowerCase == <<"a", "b", "c", "d", "e", "f", "g", "h", "i", "j", "k", "l", "m",
               "n", "o", "p", "q", "r", "s", "t", "u", "v", "w", "x", "y", "z">>

\* str.lower()
Lower(name) ==
    [i \in 1..Len(name) |->
        IF \E k \in 1..Len(UpperCase) : UpperCase[k] = name[i]
        THEN LowerCase[CHOOSE k \in 1..Len(UpperCase) : UpperCase[k] = name[i]]
        ELSE name[i]]

\* str.endswith(suffix)
EndsWith(name, suffix) ==
    /\ Len(name) >= Len(suffix)
    /\ SubSeq(name, Len(name) - Len(suffix) + 1, Len(name)) = suffix

SuffixRda == <<"/", "d", "a", "t", "a", "/", "m", "4", ".", "r", "d", "a">>
SuffixRData == <<"/", "d", "a", "t", "a", "/", "m", "4", ".", "r", "d", "a", "t", "a">>

\* The member names tried, and the characters of each.
NameRda == "P/data/M4.rda"
NameRData == "P/data/M4.RData"
NameNoDir == "data/M4.rda"
NameOther == "P/R/M4.rda"

Chars(name) ==
    CASE name = NameRda ->
            <<"P", "/", "d", "a", "t", "a", "/", "M", "4", ".", "r", "d", "a">>
      [] name = NameRData ->
            <<"P", "/", "d", "a", "t", "a", "/", "M", "4", ".", "R", "D", "a", "t", "a">>
      [] name = NameNoDir ->
            <<"d", "a", "t", "a", "/", "M", "4", ".", "r", "d", "a">>
      [] name = NameOther ->
            <<"P", "/", "R", "/", "M", "4", ".", "r", "d", "a">>

\* A slip of the test: the second accepted file name forgotten.
MemberMatchesRdaOnly(name) == EndsWith(Lower(Chars(name)), SuffixRda)

\* The test of lines 157-158 on one member name.
MemberMatches(name) ==
    LET lowered == Lower(Chars(name))
    IN EndsWith(lowered, SuffixRda) \/ EndsWith(lowered, SuffixRData)

\* The scan of lines 154-160 from member i on: the index of the member kept
\* in member_to_extract, 0 for None.
RECURSIVE FindMember(_, _)
FindMember(members, i) ==
    IF i > Len(members) THEN 0
    ELSE IF MemberMatches(members[i].name) THEN i
    ELSE FindMember(members, i + 1)

\* tarfile's search for the target of link i: the last member of the target's
\* name, in the whole archive for a symbolic link, before the link for a hard
\* link; 0 when there is none.
FindLinkTarget(members, i) ==
    LET range == IF members[i].kind = "sym" THEN 1..Len(members) ELSE 1..(i - 1)
        found == {j \in range : members[j].name = members[i].target}
    IN IF found = {} THEN 0 ELSE CHOOSE j \in found : \A k \in found : k <= j

\* tar.extractfile(member) of line 167, for member i: a stream of a regular
\* file's bytes, None for a member with no data, the target's result for a
\* link; KeyError for a link with no target, RecursionError for links that
\* lead back to themselves (hops counts the links still allowed: a chain of
\* more links than the archive has members is a cycle).
RECURSIVE ExtractFile(_, _, _)
ExtractFile(members, i, hops) ==
    CASE members[i].kind = "file" -> [res |-> "stream", data |-> members[i].data]
      [] members[i].kind = "dir" -> [res |-> "None", data |-> 0]
      [] members[i].kind \in {"sym", "lnk"} ->
            IF hops = 0 THEN [res |-> "RecursionError", data |-> 0]
            ELSE LET t == FindLinkTarget(members, i)
                 IN IF t = 0 THEN [res |-> "KeyError", data |-> 0]
                    ELSE ExtractFile(members, t, hops - 1)

M4_TARBALL_PATH == "data/M4comp2018_0.2.0.tar.gz"
RDA_PATH == "data/M4.rda"
ALT_TAR_PATH == "elsewhere/M4comp2018.tar.gz"

\* A slip of the cache test: the existing file ignored.
TarballCachedNever(exists, force) == FALSE

\* Line 104: M4_TARBALL_PATH.exists() and not force
TarballCached(exists, force) == exists /\ ~force

\* A slip of the cache test: the existing payload ignored.
PayloadCachedNever(exists, force) == FALSE

\* Line 147: RDA_PATH.exists() and not force
PayloadCached(exists, force) == exists /\ ~force

\* What urllib.request.urlretrieve does to the target (line 109), by what the
\* network does (outcome.result) and where the transfer stops (outcome.cut):
\*   "ok"      the whole archive is written;
\*   "refused" the request fails before the target is opened (URLError);
\*   "short"   the body ends early and no Content-Length was sent: the call
\*             returns normally over a partial file;
\*   "ContentTooShortError"  the body ends before its Content-Length;
\*   "ConnectionResetError"  reading the body raises;
\* the last two leave a partial file and raise.
Retrieve(outcome, served, target) ==
    CASE outcome.result = "ok" ->
            [err |-> None, file |-> Some([members |-> served, cut |-> "none"])]
      [] outcome.result = "refused" ->
            [err |-> Some("URLError"), file |-> target]
      [] outcome.result = "short" ->
            [err |-> None, file |-> Some([members |-> served, cut |-> outcome.cut])]
      [] outcome.result \in {"ContentTooShortError", "ConnectionResetError"} ->
            [err |-> Some(outcome.result),
             file |-> Some([members |-> served, cut |-> outcome.cut])]

NoScan(err, payload) ==
    [err |-> Some(err), rda |-> payload, scanned |-> FALSE, selected |-> 0,
     wrote |-> FALSE]

\* A slip of the order: the payload opened for writing before the member is.
ScanArchiveWriteFirst(file, payload) ==
    IF file.cut = "head" THEN NoScan("ReadError", payload)
    ELSE IF file.cut = "body" THEN NoScan("EOFError", payload)
    ELSE LET sel == FindMember(file.members, 1)
         IN IF sel = 0
            THEN [err |-> Some("FileNotFoundError"), rda |-> payload,
                  scanned |-> TRUE, selected |-> 0, wrote |-> FALSE]
            ELSE LET opened == ExtractFile(file.members, sel, Len(file.members))
                 IN CASE opened.res = "stream" ->
                            [err |-> None, rda |-> Some(opened.data),
                             scanned |-> TRUE, selected |-> sel, wrote |-> TRUE]
                      [] opened.res = "None" ->
                            [err |-> Some("RuntimeError"), rda |-> Some(0),
                             scanned |-> TRUE, selected |-> sel, wrote |-> TRUE]
                      [] OTHER ->
                            [err |-> Some(opened.res), rda |-> payload,
                             scanned |-> TRUE, selected |-> sel, wrote |-> FALSE]

\* Lines 153-175: the archive opened, scanned, the member copied to RDA_PATH.
\* payload is the content of RDA_PATH before.  A file too short for gzip is a
\* tarfile.ReadError, one whose compressed data ends early an EOFError (both
\* before any member is seen); one that misses only bytes after its last
\* member reads as the whole archive.
ScanArchive(file, payload) ==
    IF file.cut = "head" THEN NoScan("ReadError", payload)
    ELSE IF file.cut = "body" THEN NoScan("EOFError", payload)
    ELSE LET sel == FindMember(file.members, 1)
         IN IF sel = 0
            THEN [err |-> Some("FileNotFoundError"), rda |-> payload,
                  scanned |-> TRUE, selected |-> 0, wrote |-> FALSE]
            ELSE LET opened == ExtractFile(file.members, sel, Len(file.members))
                 IN CASE opened.res = "stream" ->
                            [err |-> None, rda |-> Some(opened.data),
                             scanned |-> TRUE, selected |-> sel, wrote |-> TRUE]
                      [] opened.res = "None" ->
                            [err |-> Some("RuntimeError"), rda |-> payload,
                             scanned |-> TRUE, selected |-> sel, wrote |-> FALSE]
                      [] OTHER ->
                            [err |-> Some(opened.res), rda |-> payload,
                             scanned |-> TRUE, selected |-> sel, wrote |-> FALSE]

(***************************************************************************)
(* SpecFiles: download_m4_tarball and extract_m4_rda_from_tarball, over    *)
(* the two cache files, a served archive and a caller-supplied tar_path.   *)
(***************************************************************************)
MaxMembers == 2   \* most members in the served archive

\* The kinds of member tried: the two accepted files, a directory under an
\* accepted name, a name that misses the suffix, a symbolic link and a hard
\* link under accepted names (AltArchiveFile has the other missing name).
MemberKinds ==
    {[name |-> NameRda, kind |-> "file", target |-> ""],
     [name |-> NameRData, kind |-> "file", target |-> ""],
     [name |-> NameRda, kind |-> "dir", target |-> ""],
     [name |-> NameNoDir, kind |-> "file", target |-> ""],
     [name |-> NameRda, kind |-> "sym", target |-> NameRData],
     [name |-> NameRData, kind |-> "lnk", target |-> NameRda]}

\* An archive of the given member kinds; each member's bytes differ.
MkArchive(kinds) ==
    [i \in 1..Len(kinds) |->
        [name |-> kinds[i].name, kind |-> kinds[i].kind,
         target |-> kinds[i].target, data |-> i]]

Archives == {MkArchive(k) : k \in UNION {[1..n -> MemberKinds] : n \in 0..MaxMembers}}

AltArchiveFile ==
    [members |-> <<[name |-> NameOther, kind |-> "file", target |-> "", data |-> 8],
                   [name |-> NameRData, kind |-> "file", target |-> "", data |-> 9]>>,
     cut |-> "none"]

\* What the network may do to one fetch.
Outcomes ==
    {[result |-> "ok", cut |-> "none"], [result |-> "refused", cut |-> "none"]}
    \cup [result : {"short", "ContentTooShortError", "ConnectionResetError"},
          cut : {"head", "body", "tail"}]

InitFiles ==
    /\ remote \in Archives
    /\ tarball = None
    /\ alt_tar = Some(AltArchiveFile)
    /\ rda = None
    /\ last = NoCall
    /\ FilterParked /\ RecordParked /\ LoadParked

\* download_m4_tarball(force); outcome is what the network does if asked.
Download(force, outcome) ==
    LET cached == TarballCached(tarball # None, force)
        got == Retrieve(outcome, remote, tarball)
    IN /\ cached => outcome.result = "ok"
       /\ tarball' = IF cached THEN tarball ELSE got.file
       /\ last' = [op |-> "download", force |-> force, tar_path |-> None,
                   err |-> IF cached THEN None ELSE got.err,
                   ret |-> IF cached \/ got.err = None
                           THEN Some(M4_TARBALL_PATH) ELSE None,
                   fetches |-> IF cached THEN 0 ELSE 1,
                   opened |-> FALSE, scanned |-> FALSE, selected |-> 0,
                   wrote |-> FALSE,
                   tarball_before |-> tarball, rda_before |-> rda]
       /\ UNCHANGED <<remote, alt_tar, rda, filterVars, recordVars, loadVars>>

\* The file a tar_path argument names (lines 141-142).
TarFile(tar_path) ==
    LET path == IF tar_path = None THEN M4_TARBALL_PATH ELSE tar_path[1]
    IN IF path = M4_TARBALL_PATH THEN tarball ELSE alt_tar

\* extract_m4_rda_from_tarball(tar_path, force)
Extract(tar_path, force) ==
    LET file == TarFile(tar_path)
        cached == file # None /\ PayloadCached(rda # None, force)
        out == IF file = None
               THEN NoScan("FileNotFoundError", rda)
               ELSE IF cached
               THEN [err |-> None, rda |-> rda,
                     scanned |-> FALSE, selected |-> 0, wrote |-> FALSE]
               ELSE ScanArchive(file[1], rda)
    IN /\ rda' = out.rda
       /\ last' = [op |-> "extract", force |-> force, tar_path |-> tar_path,
                   err |-> out.err,
                   ret |-> IF out.err = None THEN Some(RDA_PATH) ELSE None,
                   fetches |-> 0,
                   opened |-> (file # None /\ ~cached), scanned |-> out.scanned,
                   selected |-> out.selected, wrote |-> out.wrote,
                   tarball_before |-> file, rda_before |-> rda]
       /\ UNCHANGED <<remote, tarball, alt_tar, filterVars, recordVars, loadVars>>

NextFiles ==
    \/ \E force \in BOOLEAN, outcome \in Outcomes : Download(force, outcome)
    \/ \E tar_path \in {None, Some(ALT_TAR_PATH)}, force \in BOOLEAN :
          Extract(tar_path, force)

SpecFiles == InitFiles /\ [][NextFiles]_vars

(***************************************************************************)
(* Properties of the two cache files (checked under SpecFiles).            *)
(***************************************************************************)
\* One step of the cache file, for C4: the call that ends the step (last')
\* against the file before it (tarball) and the call before it (last).
DownloadStep ==
    /\ (last'.op = "download" /\ ~last'.force /\ tarball # None)
          => /\ last'.fetches = 0
             /\ tarball' = tarball
             /\ last'.err = None /\ last'.ret = Some(M4_TARBALL_PATH)
    /\ last'.op = "download"
          => /\ last'.tarball_before = tarball
             /\ last'.fetches \in {0, 1}
             /\ last'.fetches = 1 <=> (tarball = None \/ last'.force)
             /\ (last'.fetches = 1 /\ last'.err = None)
                   => /\ tarball' # None /\ tarball'[1].members = remote
                      /\ last'.ret = Some(M4_TARBALL_PATH)
    /\ (/\ last.op = "download" /\ last'.op = "download"
        /\ ~last.force /\ ~last'.force
        /\ last.tarball_before = None /\ last.err = None /\ last'.err = None)
          => /\ last.fetches + last'.fetches = 1
             /\ last.fetches = 1
             /\ last'.ret = last.ret
             /\ tarball' = tarball

\* C4: a download with force=False made while the cached archive exists
\* fetches nothing, leaves the file as it was and returns the fixed path; a
\* fetch happens exactly when the file is absent or force=True, it is a single
\* fetch, and when it returns the target holds what the fetch wrote of the
\* served archive. Two consecutive returning force=False calls from an empty
\* cache fetch once.
C4_DownloadCached == [][DownloadStep]_vars

C4_Witness ==
    /\ last.op = "download" /\ ~last.force
    /\ last.tarball_before # None /\ last.fetches = 0
    /\ last.ret = Some(M4_TARBALL_PATH)
    /\ remote # << >> /\ tarball[1].cut = "none"

\* The cached call over the partial file an earlier fetch returned over.
C4_PartialWitness ==
    /\ last.op = "download" /\ ~last.force
    /\ last.fetches = 0 /\ last.err = None
    /\ tarball[1].cut = "body"

\* A fetch that returned normally over a partial file.
C4_ShortFetch ==
    /\ last.op = "download" /\ last.fetches = 1 /\ last.err = None
    /\ tarball[1].cut = "tail" /\ tarball[1].members = remote

\* Whether two tar_path arguments name the same archive file.
SamePath(a, b) ==
    (IF a = None THEN M4_TARBALL_PATH ELSE a[1]) = (IF b = None THEN M4_TARBALL_PATH ELSE b[1])

\* One step of the payload, for C5: the call that ends the step (last')
\* against the payload before it (rda) and the call before it (last).
ExtractStep ==
    /\ (/\ last'.op = "extract" /\ ~last'.force
        /\ last'.tarball_before # None /\ rda # None)
          => /\ last'.err = None /\ last'.ret = Some(RDA_PATH)
             /\ ~last'.opened /\ ~last'.wrote
             /\ rda' = rda
    /\ last'.op = "extract" => last'.rda_before = rda
    /\ (/\ last.op = "extract" /\ last'.op = "extract"
        /\ ~last.force /\ ~last'.force /\ SamePath(last.tar_path, last'.tar_path))
          => rda' = rda
    /\ (last'.op = "extract" /\ (last'.wrote \/ rda' # rda))
          => (rda = None \/ last'.force)

\* C5: with the archive and the payload present and force=False, extraction
\* returns the payload path without opening the archive and leaves the payload
\* as it was; two consecutive force=False extractions of one archive leave the
\* same payload; the payload is written only when it was absent or force=True.
C5_ExtractCached == [][ExtractStep]_vars

C5_Witness ==
    /\ last.op = "extract" /\ ~last.force
    /\ last.err = None /\ last.ret = Some(RDA_PATH)
    /\ last.rda_before # None /\ ~last.opened /\ rda = last.rda_before
    /\ last.tarball_before # None
    /\ FindMember(last.tarball_before[1].members, 1) = 2

\* The members of an archive whose lowercased name has an accepted suffix.
Accepted(members) ==
    {i \in 1..Len(members) :
        \/ EndsWith(Lower(Chars(members[i].name)), SuffixRda)
        \/ EndsWith(Lower(Chars(members[i].name)), SuffixRData)}

\* C6: an extraction that scans the archive selects the first member, in
\* archive order, whose lowercased name ends with /data/m4.rda or
\* /data/m4.rdata, and writes that member's content to the payload path
\* (whenever the member can be opened as a stream: a regular file's own
\* bytes, for a link the bytes of the regular file its chain ends at); it fails with FileNotFoundError exactly
\* when no member has such a name.
C6_FirstMatch ==
    (last.op = "extract" /\ last.scanned) =>
       LET members == last.tarball_before[1].members
           hits == Accepted(members)
       IN /\ last.err = Some("FileNotFoundError") <=> hits = {}
          /\ hits = {} => last.selected = 0
          /\ hits # {} =>
                /\ last.selected \in hits
                /\ \A i \in hits : last.selected <= i
                /\ members[last.selected].kind = "file"
                      => /\ last.err = None /\ last.wrote
                         /\ rda = Some(members[last.selected].data)
                /\ (members[last.selected].kind \in {"sym", "lnk"} /\ last.err = None)
                      => \E j \in 1..Len(members) :
                            /\ members[j].kind = "file"
                            /\ rda = Some(members[j].data)
                /\ members[last.selected].kind = "dir"
                      => last.err = Some("RuntimeError")
          /\ last.err = None => last.wrote /\ rda # None

C6_Witness ==
    /\ last.op = "extract" /\ last.scanned /\ last.err = None
    /\ Cardinality(Accepted(last.tarball_before[1].members)) = 2
    /\ last.tarball_before[1].members[1].name = NameRData
    /\ last.tarball_before[1].members[1].kind = "file"
    /\ last.selected = 1 /\ rda = Some(1)

\* A partial archive that misses only its tail is scanned like the whole one.
C6_TailCutWitness ==
    /\ last.op = "extract" /\ last.scanned /\ last.err = None
    /\ last.tarball_before[1].cut = "tail"
    /\ last.selected = 2 /\ rda = Some(2)

\* A link under an accepted name: its target's bytes, or an error of its own.
C6_LinkWitness ==
    /\ last.op = "extract" /\ last.scanned
    /\ last.selected = 1
    /\ last.tarball_before[1].members[1].kind = "sym"
    /\ last.err = None /\ rda = Some(2)

C6_LinkKeyError ==
    /\ last.op = "extract" /\ last.scanned /\ last.err = Some("KeyError")

C6_LinkRecursionError ==
    /\ last.op = "extract" /\ last.scanned /\ last.err = Some("RecursionError")

\* The two ways a partial archive fails to open.
C6_ReadError ==
    /\ last.op = "extract" /\ last.opened /\ ~last.scanned
    /\ last.err = Some("ReadError") /\ rda = last.rda_before

C6_EOFError ==
    /\ last.op = "extract" /\ last.opened /\ ~last.scanned
    /\ last.err = Some("EOFError") /\ rda = last.rda_before

\* C8: when extraction fails with FileNotFoundError (archive absent, or no
\* member of an accepted name) or with RuntimeError (the member cannot be
\* opened as a stream), the payload path is as before the call: absent if it
\* was absent, unchanged if it existed, force=True included.
C8_FailureKeepsPayload ==
    (last.op = "extract" /\ last.err \in {Some("FileNotFoundError"), Some("RuntimeError")})
       => rda = last.rda_before /\ ~last.wrote

C8_Witness ==
    /\ last.op = "extract" /\ last.force
    /\ last.err = Some("RuntimeError")
    /\ last.rda_before # None /\ rda = last.rda_before

\* The other failures of extraction: absent archive, no accepted member.
C8_OtherFailures ==
    /\ last.op = "extract" /\ last.force /\ last.rda_before # None
    /\ last.err = Some("FileNotFoundError")
    /\ (last.tarball_before = None \/ last.scanned)

\* Every failure of extraction, of whatever kind, leaves the payload as it was.
AnyFailureKeepsPayload ==
    (last.op = "extract" /\ last.err # None) => rda = last.rda_before /\ ~last.wrote

(***************************************************************************)
(* SpecLoad: load_m4_r_object over payload files at two paths.  A payload  *)
(* is [readable, obj]: readable is FALSE for a file R's load() rejects,    *)
(* obj is Some(d) when the file defines the object "M4" (d stands for its  *)
(* content) and None when it defines other names only.  The binding "M4"   *)
(* of the R global environment is None or Some([data, gen]): gen numbers   *)
(* the load() instruction that created the object, so that two objects of  *)
(* equal content from two loads differ.                                    *)
(***************************************************************************)
MaxLoads == 3   \* most load() instructions run in one behaviour

OTHER_RDA_PATH == "elsewhere/other.rda"
PayloadPaths == {RDA_PATH, OTHER_RDA_PATH}

PayloadChoices ==
    {None,
     Some([readable |-> TRUE, obj |-> Some("M4-a")]),
     Some([readable |-> TRUE, obj |-> Some("M4-b")]),
     Some([readable |-> TRUE, obj |-> None]),
     Some([readable |-> FALSE, obj |-> None])}

\* A slip: the binding of an earlier load left in place.
ClearBindingSkipped(env) == env

\* Lines 217-218: if "M4" in globalenv: del globalenv["M4"]
ClearBinding(env) == None

\* Line 220, r('load(...)'): the binding "M4" after load() of a readable file.
\* load() binds the names the file defines and leaves the others alone.
RLoad(env, payload, gen) ==
    IF payload.obj # None
    THEN Some([data |-> payload.obj[1], gen |-> gen])
    ELSE env

InitLoad ==
    /\ payloads \in [PayloadPaths -> PayloadChoices]
    /\ globalenv = None
    /\ loads = 0
    /\ loaded = NoCall
    /\ FilterParked /\ RecordParked /\ FilesParked

\* load_m4_r_object(rda_path)
Load(rda_path) ==
    LET path == IF rda_path = None THEN RDA_PATH ELSE rda_path[1]
        file == payloads[path]
        cleared == ClearBinding(globalenv)
    IN /\ loads < MaxLoads
       /\ IF file = None
          THEN /\ loaded' = [op |-> "load", rda_path |-> rda_path,
                             err |-> Some("FileNotFoundError"), ret |-> None,
                             env_before |-> globalenv]
               /\ UNCHANGED <<globalenv, loads>>
          ELSE IF ~file[1].readable
          THEN /\ globalenv' = cleared
               /\ loads' = loads + 1
               /\ loaded' = [op |-> "load", rda_path |-> rda_path,
                             err |-> Some("RRuntimeError"), ret |-> None,
                             env_before |-> globalenv]
          ELSE LET env == RLoad(cleared, file[1], loads + 1)
               IN /\ globalenv' = env
                  /\ loads' = loads + 1
                  /\ loaded' = [op |-> "load", rda_path |-> rda_path,
                                err |-> IF env = None THEN Some("RuntimeError")
                                        ELSE None,
                                ret |-> env,
                                env_before |-> globalenv]
       /\ UNCHANGED <<payloads, filterVars, recordVars, fileVars>>

NextLoad == \E rda_path \in {None, Some(RDA_PATH), Some(OTHER_RDA_PATH)} : Load(rda_path)

SpecLoad == InitLoad /\ [][NextLoad]_vars

\* The payload file a load call read.
LoadedFile == payloads[IF loaded.rda_path = None THEN RDA_PATH ELSE loaded.rda_path[1]]

\* C7: a call that passes the payload-exists check removes the binding "M4"
\* and then runs load(); it returns a handle only if that load() defined "M4",
\* and fails with RuntimeError when the payload does not define "M4", even if
\* an earlier load had left a binding. A handle from an earlier load is never
\* returned, and none stays bound.
C7_NoStaleHandle ==
    (loaded.op = "load" /\ LoadedFile # None) =>
       /\ loaded.ret # None =>
             /\ LoadedFile[1].readable /\ LoadedFile[1].obj # None
             /\ loaded.ret[1] = [data |-> LoadedFile[1].obj[1], gen |-> loads]
             /\ loaded.ret # loaded.env_before
             /\ loaded.err = None
       /\ (LoadedFile[1].readable /\ LoadedFile[1].obj = None)
             => loaded.err = Some("RuntimeError") /\ loaded.ret = None
       /\ (LoadedFile[1].readable /\ LoadedFile[1].obj # None)
             => loaded.err = None /\ loaded.ret # None
       /\ globalenv = loaded.ret
       /\ globalenv # None => globalenv[1].gen = loads

C7_Witness ==
    /\ loaded.op = "load" /\ LoadedFile # None
    /\ loaded.env_before # None
    /\ loaded.err = Some("RuntimeError") /\ loaded.ret = None
    /\ globalenv = None

====
